---- MODULE Spec2Model ----
(***************************************************************************)
(* Model of src/src/components/ChatInterface.tsx: the parameter validator  *)
(* (validateParams), the top_p / top_k setters, the completion call        *)
(* (sendMessage) and the chat session controller (handleSubmit, the        *)
(* mutation callbacks onSuccess / onError, clearChat).                     *)
(*                                                                         *)
(* Text is a sequence of one-character strings.  A JavaScript number is a  *)
(* record: an IEEE 754 double (finite, an infinity or NaN), or Null, the   *)
(* value null of an unset top_p / top_k.                                   *)
(***************************************************************************)
EXTENDS Integers, Sequences, FiniteSets

VARIABLES
    messages,    \* useState<Array<Message>>            (line 98)
    inputValue,  \* useState('')  -- the draft text      (line 99)
    params,      \* useState<Params>(DEFAULT_PARAMS)     (line 100)
    errors,      \* useMemo(validateParams(params))      (line 103)
    isPending,   \* chatMutation.isPending               (line 117)
    outbox,      \* the fetch calls issued by sendMessage and not yet settled
    now,         \* the millisecond clock read by Date.now()
    lastEvent    \* the event handled last and its input (observation only)

vars == <<messages, inputValue, params, errors, isPending, outbox, now, lastEvent>>

----------------------------------------------------------------------------
(* Bounds of the model. *)

\* a submit is explored while the message list is shorter than this
MaxMessages == 2
\* the clock ranges over 0 .. MaxClock
MaxClock == 1

----------------------------------------------------------------------------
(* JavaScript values. *)

\* A character is a string: the character itself where the module's character
\* set has it, its code point written U+XXXX otherwise.

Undefined == [k |-> "undefined", s |-> <<>>]
JsonNull == [k |-> "null", s |-> <<>>]
Str(s) == [k |-> "string", s |-> s]

DigitChars == <<"0", "1", "2", "3", "4", "5", "6", "7", "8", "9">>

IsDigit(c) == \E i \in 1..10 : DigitChars[i] = c

DigitVal(c) == (CHOOSE i \in 1..10 : DigitChars[i] = c) - 1

\* WhiteSpace and LineTerminator of ECMAScript: tab, line feed, vertical tab,
\* form feed, carriage return, space, no-break space, the byte order mark and
\* the space separators and line separators of Unicode
IsSpace(c) ==
    c \in {"\t", "\n", "", "\f", "\r", " ", " ", "﻿",
           "U+0009", "U+000A", "U+000B", "U+000C", "U+000D", "U+0020",
           "U+00A0", "U+1680", "U+2000", "U+2001", "U+2002", "U+2003",
           "U+2004", "U+2005", "U+2006", "U+2007", "U+2008", "U+2009",
           "U+200A", "U+2028", "U+2029", "U+202F", "U+205F", "U+3000",
           "U+FEFF"}

RECURSIVE TrimStart(_)
TrimStart(s) ==
    IF s = <<>> THEN <<>>
    ELSE IF IsSpace(Head(s)) THEN TrimStart(Tail(s)) ELSE s

RECURSIVE TrimEnd(_)
TrimEnd(s) ==
    IF s = <<>> THEN <<>>
    ELSE IF IsSpace(s[Len(s)]) THEN TrimEnd(SubSeq(s, 1, Len(s) - 1)) ELSE s

\* String.prototype.trim
Trim(s) == TrimEnd(TrimStart(s))

AllDigits(s) == \A i \in 1..Len(s) : IsDigit(s[i])

RECURSIVE DigitsValue(_)
DigitsValue(s) ==
    IF s = <<>> THEN 0
    ELSE 10 * DigitsValue(SubSeq(s, 1, Len(s) - 1)) + DigitVal(s[Len(s)])

Range(s) == {s[i] : i \in 1..Len(s)}

\* the position of the first character of s that is in set cs, Len(s) + 1 if none
IndexOf(s, cs) ==
    IF \E i \in 1..Len(s) : s[i] \in cs
    THEN CHOOSE i \in 1..Len(s) : s[i] \in cs /\ \A j \in 1..(i - 1) : s[j] \notin cs
    ELSE Len(s) + 1

\* s without its leading zeros
StripZeros(s) == SubSeq(s, IndexOf(s, {c \in Range(s) : c # "0"}), Len(s))

RadixChars ==
    <<"0", "1", "2", "3", "4", "5", "6", "7", "8", "9", "a", "b", "c", "d", "e", "f">>
RadixUpper ==
    <<"0", "1", "2", "3", "4", "5", "6", "7", "8", "9", "A", "B", "C", "D", "E", "F">>

IsRadixDigit(c, radix) == \E i \in 1..radix : c \in {RadixChars[i], RadixUpper[i]}

RadixVal(c) == (CHOOSE i \in 1..16 : c \in {RadixChars[i], RadixUpper[i]}) - 1

\* the radix of a literal that starts 0x, 0o or 0b (either case), 0 otherwise
RadixOf(t) ==
    IF Len(t) >= 2 /\ t[1] = "0"
    THEN CASE t[2] \in {"x", "X"} -> 16
           [] t[2] \in {"o", "O"} -> 8
           [] t[2] \in {"b", "B"} -> 2
           [] OTHER -> 0
    ELSE 0

\* A number is null or an IEEE 754 double: NaN, an infinity of sign s, or the
\* finite value s * m * 2^e.  m is a natural number in base 10^4, least
\* significant limb first and without a most significant 0, so 0 is <<>>.
\* A finite double has one form: 2^52 <= m < 2^53 and -1074 <= e <= 971, or
\* m < 2^52 and e = -1074 (subnormal), or m = 0 and e = 0 (0 and -0).
Null == [k |-> "null", s |-> 1, m |-> <<>>, e |-> 0]
NaN == [k |-> "nan", s |-> 1, m |-> <<>>, e |-> 0]
Infinity(sign) == [k |-> "inf", s |-> sign, m |-> <<>>, e |-> 0]
Zero(sign) == [k |-> "num", s |-> sign, m |-> <<>>, e |-> 0]
Double(sign, m, e) == [k |-> "num", s |-> sign, m |-> m, e |-> e]

IsZero(x) == x.k = "num" /\ x.m = <<>>

\* Naturals of any size.  The operations avoid recursion over the limbs: a
\* carry is found by looking back over the limbs below.
Base == 10 ^ 4

Limb(a, i) == IF i >= 1 /\ i <= Len(a) THEN a[i] ELSE 0

\* the greatest member of a set of positive integers, 0 for the empty set
Greatest(S) == IF S = {} THEN 0 ELSE CHOOSE i \in S : \A j \in S : j <= i

\* the tuple t without its most significant zeros
Normal(t) == SubSeq(t, 1, Greatest({i \in 1..Len(t) : t[i] # 0}))

\* the limbs a, as a tuple, without the most significant zeros
BigNorm(a) == Normal(SubSeq(a, 1, Len(a)))

RECURSIVE BigFromInt(_)
BigFromInt(n) ==
    IF n = 0 THEN <<>> ELSE <<n % Base>> \o BigFromInt(n \div Base)

\* the limbs of the sums t, each under 2 * Base - 1: a sum of Base or more
\* carries 1 into the next limb, a sum of Base - 1 passes a carry on
Carry(t) ==
    BigNorm([i \in 1..Len(t) |->
                (t[i] + (IF \E j \in 1..(i - 1) :
                               t[j] >= Base /\ \A h \in (j + 1)..(i - 1) : t[h] = Base - 1
                         THEN 1 ELSE 0)) % Base])

Carried(s) == Carry(SubSeq(s, 1, Len(s)))

\* a * k + c, for 0 < k < Base and 0 <= c < Base
BigMulAdd(a, k, c) ==
    Carried([i \in 1..(Len(a) + 1) |->
                ((Limb(a, i) * k) % Base)
                + (IF i = 1 THEN c ELSE (a[i - 1] * k) \div Base)])

BigAdd(a, b) ==
    Carried([i \in 1..((IF Len(a) > Len(b) THEN Len(a) ELSE Len(b)) + 1) |->
                Limb(a, i) + Limb(b, i)])

\* a - b, for a >= b: a limb of a under the limb of b borrows 1 from the
\* next, equal limbs pass a borrow on
BigSub(a, b) ==
    BigNorm([i \in 1..Len(a) |->
                (a[i] - Limb(b, i) + Base
                 - (IF \E j \in 1..(i - 1) :
                          a[j] < Limb(b, j) /\ \A t \in (j + 1)..(i - 1) : a[t] = Limb(b, t)
                    THEN 1 ELSE 0)) % Base])

\* -1, 0 or 1 as a is less than, equal to or greater than b, for a and b of
\* one length that differ last at limb i, or nowhere when i is 0
CmpAt(a, b, i) == IF i = 0 THEN 0 ELSE IF a[i] < b[i] THEN 0 - 1 ELSE 1

\* -1, 0 or 1 as a is less than, equal to or greater than b
BigCmp(a, b) ==
    IF Len(a) # Len(b) THEN (IF Len(a) < Len(b) THEN 0 - 1 ELSE 1)
    ELSE CmpAt(a, b, Greatest({i \in 1..Len(a) : a[i] # b[i]}))

\* a * 2^n
RECURSIVE BigTimesPow2(_, _)
BigTimesPow2(a, n) ==
    IF a = <<>> THEN <<>>
    ELSE IF n <= 13 THEN BigMulAdd(a, 2 ^ n, 0)
    ELSE BigTimesPow2(BigTimesPow2(a, n \div 2), n - n \div 2)

\* <<a \div k, a % k>>, for 0 < k < Base: the limbs above the first are
\* divided, and their remainder goes before the first limb
RECURSIVE BigDivMod(_, _)
DivLimb(q, v, k) == <<BigNorm(<<v \div k>> \o q), v % k>>
DivTail(hi, head, k) == DivLimb(hi[1], hi[2] * Base + head, k)
BigDivMod(a, k) ==
    IF a = <<>> THEN <<<<>>, 0>> ELSE DivTail(BigDivMod(Tail(a), k), Head(a), k)

\* a \div 2^n
RECURSIVE BigShiftRight(_, _)
BigShiftRight(a, n) ==
    IF a = <<>> THEN <<>>
    ELSE IF n <= 13 THEN BigDivMod(a, 2 ^ n)[1]
    ELSE BigShiftRight(BigDivMod(a, 2 ^ 13)[1], n - 13)

\* the natural written by the decimal digits s followed by z zeros
BigFromDecimal(s, z) ==
    LET n == Len(s) + z
        D(p) == IF p >= 1 /\ p <= Len(s) THEN DigitVal(s[p]) ELSE 0
    IN  BigNorm([i \in 1..((n + 3) \div 4) |->
                    1000 * D(n - 4 * i + 1) + 100 * D(n - 4 * i + 2)
                    + 10 * D(n - 4 * i + 3) + D(n - 4 * i + 4)])

\* hi * 2^n + lo
Joined(hi, lo, n) ==
    IF hi = <<>> THEN lo
    ELSE IF lo = <<>> THEN BigTimesPow2(hi, n)
    ELSE BigAdd(BigTimesPow2(hi, n), lo)

\* the natural written by the digits s of radix 2^bits: the two halves of s
\* are joined
RECURSIVE BigFromRadix(_, _)
BigFromRadix(s, bits) ==
    IF Len(s) = 0 THEN <<>>
    ELSE IF Len(s) = 1 THEN BigFromInt(RadixVal(s[1]))
    ELSE Joined(BigFromRadix(SubSeq(s, 1, Len(s) \div 2), bits),
                BigFromRadix(SubSeq(s, Len(s) \div 2 + 1, Len(s)), bits),
                bits * (Len(s) - Len(s) \div 2))

TwoPow52 == BigTimesPow2(<<1>>, 52)
TwoPow53 == BigTimesPow2(<<1>>, 53)

\* a * 2^n has more limbs than d, as 2^10 > 10^3
TooLong(a, n, d) == Len(a) + (3 * (n \div 10)) \div 4 > Len(d)

\* <<a * 2^u, u>> for the greatest u with a * 2^u < d and u <= 1073, for
\* a < d: u is t and then each of 2^k, 2^(k-1), ..., 1 that can be added
RECURSIVE ShiftBelow(_, _, _, _)
ShiftBelow(a, d, k, t) ==
    LET a2 == BigTimesPow2(a, 2 ^ k)
    IN  IF k < 0 THEN <<a, t>>
        ELSE IF t + 2 ^ k <= 1073 /\ ~TooLong(a, 2 ^ k, d) /\ BigCmp(a2, d) < 0
             THEN ShiftBelow(a2, d, k - 1, t + 2 ^ k)
             ELSE ShiftBelow(a, d, k - 1, t)

\* <<d * 2^u, u>> for the greatest u with d * 2^u <= a, for d <= a
RECURSIVE ShiftUpTo(_, _, _, _)
ShiftUpTo(d, a, k, t) ==
    LET d2 == BigTimesPow2(d, 2 ^ k)
    IN  IF k < 0 THEN <<d, t>>
        ELSE IF ~TooLong(d, 2 ^ k, a) /\ BigCmp(d2, a) <= 0
             THEN ShiftUpTo(d2, a, k - 1, t + 2 ^ k)
             ELSE ShiftUpTo(d, a, k - 1, t)

\* <<q, r1>> with r * 2^n = q * d + r1 and r1 < d, for r < d and 0 < n <= 13:
\* one binary digit of r / d, or the digits of the two halves of n
RECURSIVE Bits(_, _, _)
Bit(r2, d) == IF BigCmp(r2, d) >= 0 THEN <<1, BigSub(r2, d)>> ELSE <<0, r2>>
BitsJoined(q, lo, n) == <<q * 2 ^ n + lo[1], lo[2]>>
BitsAfter(hi, d, n) == BitsJoined(hi[1], Bits(hi[2], d, n), n)
Bits(r, d, n) ==
    IF r = <<>> THEN <<0, <<>>>>
    ELSE IF n = 1 THEN Bit(BigMulAdd(r, 2, 0), d)
    ELSE BitsAfter(Bits(r, d, n \div 2), d, n - n \div 2)

\* <<m * 2^(13 * g) + q, r1>> with r * 2^(13 * g) = q * d + r1 and r1 < d,
\* for r < d: g groups of 13 binary digits of r / d go after the digits m
RECURSIVE Digits(_, _, _, _)
DigitsAfter(m, p, d, g) == Digits(BigMulAdd(m, 2 ^ 13, p[1]), p[2], d, g - 1)
Digits(m, r, d, g) ==
    IF g = 0 THEN <<m, r>> ELSE DigitsAfter(m, Bits(r, d, 13), d, g)

\* <<m, r>> with a * 2^52 = m * d + r and r < d, for a < 2 * d: the first
\* 53 binary digits of a / d
Quotient(a, d) ==
    IF BigCmp(a, d) >= 0 THEN Digits(<<1>>, BigSub(a, d), d, 4)
    ELSE Digits(<<>>, a, d, 4)

\* m, or m + 1 when the rest is over half of d (half > 0), or is half of d
\* and m is odd
RoundUp(m, half) ==
    IF half > 0 \/ (half = 0 /\ m # <<>> /\ m[1] % 2 = 1) THEN BigMulAdd(m, 1, 1) ELSE m

\* qr[1] + qr[2] / d rounded to the nearest natural, ties to the even one
Nearest(qr, d) == RoundUp(qr[1], BigCmp(BigMulAdd(qr[2], 2, 0), d))

\* the double sign * m * 2^e, for m <= 2^53 and e <= 971
Finite(sign, m, e) ==
    IF m = <<>> THEN Zero(sign)
    ELSE IF m # TwoPow53 THEN Double(sign, m, e)
    ELSE IF e = 971 THEN Infinity(sign)
    ELSE Double(sign, TwoPow52, e + 1)

\* the double nearest to sign * (a / d) * 2^(e0 + 52), ties to the even
\* significand, for a / d in 1 .. 2, or under 1 when e0 = -1074
Rounded(sign, a, d, e0) ==
    IF e0 > 971 THEN Infinity(sign)
    ELSE Finite(sign, Nearest(Quotient(a, d), d), e0)

\* the double nearest to sign * n / d0 * 2^52, for n < d0: n is doubled up
\* to d0, at most 1074 times
Below(sign, dn, d0) == Rounded(sign, BigMulAdd(dn[1], 2, 0), d0, 0 - (dn[2] + 1))

\* the double nearest to sign * n / up[1] * 2^(up[2] + 52)
Above(sign, n, up) == Rounded(sign, n, up[1], up[2])

\* the double nearest to sign * n / d0 * 2^52
Scaled(sign, n, d0) ==
    IF BigCmp(n, d0) < 0 THEN Below(sign, ShiftBelow(n, d0, 10, 0), d0)
    ELSE Above(sign, n, ShiftUpTo(d0, n, 10, 0))

\* the double nearest to sign * n / q, for naturals n > 0 and q > 0 with
\* n / q < 2^2048: n / q is scaled by a power of 2 into 1 .. 2, or as far as
\* the least exponent allows
ToDouble(sign, n, q) == Scaled(sign, n, BigTimesPow2(q, 52))

InfinityText == <<"I", "n", "f", "i", "n", "i", "t", "y">>

\* the value of the digits of an exponent; an exponent of more than 8 digits
\* is as good as 10^8
ExponentValue(xd) ==
    IF Len(StripZeros(xd)) > 8 THEN 10 ^ 8 ELSE DigitsValue(StripZeros(xd))

\* digits, an optional point and digits, an optional exponent: the double
\* nearest to mantissa ip.fp times 10^x (x negated when xneg), of sign neg.
\* A value of 10^310 or more is an infinity and one under 10^-325 is 0
\* without further arithmetic.
DecimalValue(neg, ip, fp, xneg, x) ==
    LET sig == StripZeros(ip \o fp)
        pow == (IF xneg THEN 0 - x ELSE x) - Len(fp)
        sign == IF neg THEN 0 - 1 ELSE 1
    IN  IF sig = <<>> THEN Zero(sign)
        ELSE IF Len(sig) + pow > 310 THEN Infinity(sign)
        ELSE IF Len(sig) + pow < 0 - 324 THEN Zero(sign)
        ELSE IF pow >= 0 THEN ToDouble(sign, BigFromDecimal(sig, pow), <<1>>)
        ELSE ToDouble(sign, BigFromDecimal(sig, 0), BigFromDecimal(<<"1">>, 0 - pow))

\* the digits of a 0x, 0o or 0b literal: a value of 2^1024 or more is an
\* infinity without further arithmetic
RadixLiteral(ds, radix) ==
    LET bits == CASE radix = 16 -> 4 [] radix = 8 -> 3 [] OTHER -> 1
        sig == StripZeros(ds)
    IN  IF sig = <<>> THEN Zero(1)
        ELSE IF bits * (Len(sig) - 1) >= 1024 THEN Infinity(1)
        ELSE ToDouble(1, BigFromRadix(sig, bits), <<1>>)

\* StringToNumber of ECMAScript: white space is trimmed; blank text is 0;
\* 0x, 0o and 0b literals; an optional sign before Infinity or before a
\* decimal literal with an optional exponent; anything else is NaN.  The
\* value is rounded to the nearest double.
StringToNumber(v) ==
    LET t == Trim(v)
        signed == t # <<>> /\ Head(t) \in {"-", "+"}
        neg == t # <<>> /\ Head(t) = "-"
        u == IF signed THEN Tail(t) ELSE t
        x == IndexOf(u, {"e", "E"})
        m == SubSeq(u, 1, x - 1)
        xp == SubSeq(u, x + 1, Len(u))
        xneg == xp # <<>> /\ Head(xp) = "-"
        xd == IF xp # <<>> /\ Head(xp) \in {"-", "+"} THEN Tail(xp) ELSE xp
        d == IndexOf(m, {"."})
        ip == SubSeq(m, 1, d - 1)
        fp == SubSeq(m, d + 1, Len(m))
    IN  IF t = <<>> THEN Zero(1)
        ELSE IF RadixOf(t) # 0
             THEN IF Len(t) > 2 /\ \A i \in 3..Len(t) : IsRadixDigit(t[i], RadixOf(t))
                  THEN RadixLiteral(SubSeq(t, 3, Len(t)), RadixOf(t))
                  ELSE NaN
        ELSE IF u = InfinityText THEN Infinity(IF neg THEN 0 - 1 ELSE 1)
        ELSE IF /\ AllDigits(ip) /\ AllDigits(fp) /\ Len(ip) + Len(fp) > 0
                /\ (x <= Len(u) => xd # <<>> /\ AllDigits(xd))
             THEN DecimalValue(neg, ip, fp, xneg, ExponentValue(xd))
             ELSE NaN

\* the whole part of the magnitude of a finite double x with x.e < 0
Whole(x) == IF x.e < 0 - 53 THEN <<>> ELSE BigShiftRight(x.m, 0 - x.e)

\* the finite double x with x.e < 0 without its fraction, w being the whole
\* part of its magnitude: the digits of x.m under the units are cleared
Truncated(x, w) ==
    IF w = <<>> THEN Zero(x.s) ELSE Double(x.s, BigTimesPow2(w, 0 - x.e), x.e)

\* Math.trunc: the fraction is dropped and the sign kept, so -0.5 gives -0
Trunc(x) == IF x.k # "num" \/ x.e >= 0 THEN x ELSE Truncated(x, Whole(x))

\* Number.isNaN
IsNaN(x) == x.k = "nan"

\* Number.isInteger
IsInteger(x) == x.k = "num" /\ Trunc(x) = x

\* the double of a natural
FromInt(n) == IF n = 0 THEN Zero(1) ELSE ToDouble(1, BigFromInt(n), <<1>>)

\* the numeric literals of the component
Num0 == FromInt(0)
Num1 == FromInt(1)
Num2 == FromInt(2)
Num20 == FromInt(20)

\* -1, 0, 1 as |x| is less than, equal to or greater than |y|, for infinite
\* or finite non-zero doubles: by the one form of a double, a greater e is a
\* greater magnitude
MagCmp(x, y) ==
    IF x.k # y.k THEN (IF x.k = "inf" THEN 1 ELSE 0 - 1)
    ELSE IF x.k = "inf" THEN 0
    ELSE IF x.e # y.e THEN (IF x.e < y.e THEN 0 - 1 ELSE 1)
    ELSE BigCmp(x.m, y.m)

\* -1, 0, 1: the sign of a number that is not NaN; -0 has sign 0
Sign(x) == IF IsZero(x) THEN 0 ELSE x.s

\* x < y and x > y on numbers (false when either is NaN)
Lt(x, y) ==
    /\ x.k \in {"num", "inf"} /\ y.k \in {"num", "inf"}
    /\ \/ Sign(x) < Sign(y)
       \/ Sign(x) = Sign(y) /\ Sign(x) > 0 /\ MagCmp(x, y) < 0
       \/ Sign(x) = Sign(y) /\ Sign(x) < 0 /\ MagCmp(x, y) > 0
Gt(x, y) == Lt(y, x)

----------------------------------------------------------------------------
(* Parameters and their validation. *)

ReasoningEfforts == {"high", "medium", "low", "minimal"}

DEFAULT_PARAMS ==
    [temperature |-> Num1, top_p |-> Num1, top_k |-> Null,
     reasoning_effort |-> "medium"]

ErrTemperature == "Temperature debe estar entre 0 y 2."
ErrTopP == "Top-p debe estar entre 0 y 1."
ErrTopK == "Top-k debe ser un entero entre 0 y 20."
ErrBoth == "Solo se permite enviar top-p o top-k, no ambos."
ErrEffort == "Reasoning effort inválido."

\* validateParams with the mutual-exclusion rule testing truthiness, so that a
\* value of 0 counts as unset
validateParams_zeroIsUnset(p) ==
    (IF IsNaN(p.temperature) \/ Lt(p.temperature, Num0) \/ Gt(p.temperature, Num2)
     THEN <<ErrTemperature>> ELSE <<>>)
    \o (IF p.top_p # Null /\ (IsNaN(p.top_p) \/ Lt(p.top_p, Num0) \/ Gt(p.top_p, Num1))
        THEN <<ErrTopP>> ELSE <<>>)
    \o (IF p.top_k # Null
           /\ (IsNaN(p.top_k) \/ Lt(p.top_k, Num0) \/ Gt(p.top_k, Num20) \/ ~IsInteger(p.top_k))
        THEN <<ErrTopK>> ELSE <<>>)
    \o (IF p.top_p # Null /\ ~IsNaN(p.top_p) /\ ~IsZero(p.top_p)
           /\ p.top_k # Null /\ ~IsNaN(p.top_k) /\ ~IsZero(p.top_k)
        THEN <<ErrBoth>> ELSE <<>>)
    \o (IF p.reasoning_effort \notin ReasoningEfforts THEN <<ErrEffort>> ELSE <<>>)

validateParams(p) ==
    (IF IsNaN(p.temperature) \/ Lt(p.temperature, Num0) \/ Gt(p.temperature, Num2)
     THEN <<ErrTemperature>> ELSE <<>>)
    \o (IF p.top_p # Null /\ (IsNaN(p.top_p) \/ Lt(p.top_p, Num0) \/ Gt(p.top_p, Num1))
        THEN <<ErrTopP>> ELSE <<>>)
    \o (IF p.top_k # Null
           /\ (IsNaN(p.top_k) \/ Lt(p.top_k, Num0) \/ Gt(p.top_k, Num20) \/ ~IsInteger(p.top_k))
        THEN <<ErrTopK>> ELSE <<>>)
    \o (IF p.top_p # Null /\ p.top_k # Null THEN <<ErrBoth>> ELSE <<>>)
    \o (IF p.reasoning_effort \notin ReasoningEfforts THEN <<ErrEffort>> ELSE <<>>)

----------------------------------------------------------------------------
(* Text constants of the source. *)

\* 'Error al enviar mensaje'                                    (line 85)
ErrorAlEnviar ==
    <<"E", "r", "r", "o", "r", " ", "a", "l", " ", "e", "n", "v", "i", "a", "r", " ", "m", "e", "n", "s", "a", "j", "e">>

\* 'Sin respuesta'                                              (line 94)
SinRespuesta ==
    <<"S", "i", "n", " ", "r", "e", "s", "p", "u", "e", "s", "t", "a">>

\* the prefix of the template of line 131: a cross mark and ' Error: '
ErrorPrefix == <<"U+274C", " ", "E", "r", "r", "o", "r", ":", " ">>

\* 'desconocido'                                                (line 131)
Desconocido == <<"d", "e", "s", "c", "o", "n", "o", "c", "i", "d", "o">>

BotSuffix == <<"-", "b", "o", "t">>
ErrorSuffix == <<"-", "e", "r", "r", "o", "r">>

\* Number.prototype.toString of a non-negative integer
RECURSIVE ToString(_)
ToString(n) ==
    IF n < 10 THEN <<DigitChars[n + 1]>>
    ELSE ToString(n \div 10) \o <<DigitChars[(n % 10) + 1]>>

----------------------------------------------------------------------------
(* The completion call. *)

\* a || b on JSON values that are absent, null or strings
Truthy(x) == x.k = "string" /\ x.s # <<>>

\* the left operand of ?? is kept unless it is null or undefined
Nullish(x) == x.k \in {"undefined", "null"}

\* What the transport delivers for one fetch: a rejected fetch, or a response
\* with a status and a body that is not JSON, the JSON value null, or a JSON
\* object with optional fields.  reason is the message of the exception the
\* platform raises for this outcome (rejected fetch, failed json(), property
\* read of null).
Outcome(kind, ok, json, message, content, error, reason) ==
    [kind |-> kind, ok |-> ok, json |-> json, message |-> message,
     content |-> content, error |-> error, reason |-> reason]

NoOutcome == Outcome("none", FALSE, "invalid", Undefined, Undefined, Undefined, <<>>)

Resolved(text) == [threw |-> FALSE, value |-> [message |-> Str(text)]]
Thrown(text) == [threw |-> TRUE, value |-> [message |-> Str(text)]]

\* the text of the TypeError of reading data.message when the body is the
\* JSON null
CannotReadNull ==
    <<"C", "a", "n", "n", "o", "t", " ", "r", "e", "a", "d", " ", "p", "r",
      "o", "p", "e", "r", "t", "i", "e", "s", " ", "o", "f", " ", "n", "u",
      "l", "l", " ", "(", "r", "e", "a", "d", "i", "n", "g", " ", "'", "m",
      "e", "s", "s", "a", "g", "e", "'", ")">>

\* sendMessage from the point where fetch settles
sendMessage(o) ==
    IF o.kind = "reject" THEN Thrown(o.reason)
    ELSE IF ~o.ok
         THEN Thrown(IF o.json = "object" /\ ~Nullish(o.error)
                     THEN o.error.s ELSE ErrorAlEnviar)
         ELSE IF o.json = "invalid" THEN Thrown(o.reason)
         ELSE IF o.json = "null" THEN Thrown(CannotReadNull)
         ELSE Resolved(IF Truthy(o.message) THEN o.message.s
                       ELSE IF Truthy(o.content) THEN o.content.s
                            ELSE SinRespuesta)

\* a message is built from two readings of the clock: Date.now() for the id,
\* new Date() for the timestamp
userMessage(t, ts, text) ==
    [id |-> ToString(t), content |-> text, isUser |-> TRUE, timestamp |-> ts]

botMessage(t, ts, data) ==
    [id |-> ToString(t) \o BotSuffix, content |-> data.message.s,
     isUser |-> FALSE, timestamp |-> ts]

\* errorMessage that drops the failure's description
errorMessage_noDescription(t, ts, error) ==
    [id |-> ToString(t) \o ErrorSuffix, content |-> ErrorPrefix \o Desconocido,
     isUser |-> FALSE, timestamp |-> ts]

errorMessage(t, ts, error) ==
    [id |-> ToString(t) \o ErrorSuffix,
     content |-> ErrorPrefix \o (IF Nullish(error.message) THEN Desconocido
                                 ELSE error.message.s),
     isUser |-> FALSE, timestamp |-> ts]

RemoveAt(s, i) == SubSeq(s, 1, i - 1) \o SubSeq(s, i + 1, Len(s))

----------------------------------------------------------------------------
(* Inputs. *)

\* texts typed into the draft field
DraftInputs == {<<>>, <<" ", "\r">>, <<"h", "i", " ">>}

\* texts typed into the number fields during a session
TemperatureInputs == {<<"1">>, <<"3">>}
TopPInputs == {<<"0", ".", "9">>}
TopKInputs == {<<>>, <<"5", ".", "5">>}
EffortInputs == {"medium", "low"}

\* texts typed into the number fields when only the parameters are edited
NumberTexts ==
    {<<>>, <<"0">>, <<"0", ".", "5">>, <<"1">>, <<"2">>, <<"2", ".", "5">>,
     <<"-", "1">>, <<"5", ".", "5">>, <<"2", "0">>, <<"2", "1">>, <<"a">>,
     <<"1", ".", "0", "0", "1">>, <<"1", "e", "1">>, <<"\f", "2", "e", "-", "1">>,
     <<"0", "x", "1", "0">>, <<"I", "n", "f", "i", "n", "i", "t", "y">>,
     <<"-", "0">>, <<"1", ".", "0", "0", "0", "0", "0", "0", "0", "0", "0", "0", "0", "0", "0", "0", "0", "0", "1">>}

\* the numbers of the texts typed in the sessions, computed once
TypedNumbers ==
    LET texts == NumberTexts \cup TemperatureInputs \cup TopPInputs \cup TopKInputs
    IN  {<<v, StringToNumber(v)>> : v \in texts}

\* Number(v)
Number(v) ==
    IF \E p \in TypedNumbers : p[1] = v
    THEN (CHOOSE p \in TypedNumbers : p[1] = v)[2]
    ELSE StringToNumber(v)

\* the text of the TypeError of a rejected fetch
FailedToFetch == <<"F", "a", "i", "l", "e", "d", " ", "t", "o", " ", "f", "e", "t", "c", "h">>
\* the text of the SyntaxError of response.json() on an empty body
UnexpectedEnd ==
    <<"U", "n", "e", "x", "p", "e", "c", "t", "e", "d", " ", "e", "n", "d",
      " ", "o", "f", " ", "J", "S", "O", "N", " ", "i", "n", "p", "u", "t">>

JsonTexts == {Undefined, Str(<<>>), Str(<<"h", "i">>)}
JsonContents == {Undefined, Str(<<>>), Str(<<"y", "o">>)}
JsonErrors == {Undefined, JsonNull, Str(<<>>), Str(<<"b", "o", "o", "m">>)}

Outcomes ==
    {Outcome("reject", FALSE, "invalid", Undefined, Undefined, Undefined, FailedToFetch)}
    \cup {Outcome("response", ok, "invalid", Undefined, Undefined, Undefined, UnexpectedEnd) :
            ok \in BOOLEAN}
    \cup {Outcome("response", ok, "null", Undefined, Undefined, Undefined, <<>>) :
            ok \in BOOLEAN}
    \cup {Outcome("response", TRUE, "object", m, c, Undefined, <<>>) :
            m \in JsonTexts, c \in JsonContents}
    \cup {Outcome("response", FALSE, "object", Undefined, Undefined, e, <<>>) :
            e \in JsonErrors}

\* the outcomes met in a session where the parameters are edited too
SessionOutcomes ==
    {Outcome("response", TRUE, "object", Str(<<"h", "i">>), Undefined, Undefined, <<>>),
     Outcome("reject", FALSE, "invalid", Undefined, Undefined, Undefined, FailedToFetch)}

\* an event: the handler that ran, the text it was given, the outcome it saw
Event(op, input, o) == [op |-> op, input |-> input, outcome |-> o]

----------------------------------------------------------------------------
(* The session. *)

Init ==
    /\ messages = <<>>
    /\ inputValue = <<>>
    /\ params = DEFAULT_PARAMS
    /\ errors = validateParams(DEFAULT_PARAMS)
    /\ isPending = FALSE
    /\ outbox = <<>>
    /\ now = 0
    /\ lastEvent = Event("mount", <<>>, NoOutcome)

\* onChange of the draft field
setInputValue(v) ==
    /\ inputValue' = v
    /\ lastEvent' = Event("setInputValue", v, NoOutcome)
    /\ UNCHANGED <<messages, params, errors, isPending, outbox, now>>

setParams(p) ==
    /\ params' = p
    /\ errors' = validateParams(p)
    /\ UNCHANGED <<messages, inputValue, isPending, outbox, now>>

setTemperature(v) ==
    /\ setParams([params EXCEPT !.temperature = Number(v)])
    /\ lastEvent' = Event("setTemperature", v, NoOutcome)

setTopP(v) ==
    LET val == IF v = <<>> THEN Null ELSE Number(v)
    IN  /\ setParams([params EXCEPT !.top_p = val,
                                    !.top_k = IF val # Null THEN Null ELSE @])
        /\ lastEvent' = Event("setTopP", v, NoOutcome)

\* setTopK that leaves top_p as it was
setTopK_keepsTopP(v) ==
    LET n == IF v = <<>> THEN Null ELSE Number(v)
        val == IF n = Null THEN Null ELSE Trunc(n)
    IN  /\ setParams([params EXCEPT !.top_k = val])
        /\ lastEvent' = Event("setTopK", v, NoOutcome)

setTopK(v) ==
    LET n == IF v = <<>> THEN Null ELSE Number(v)
        val == IF n = Null THEN Null ELSE Trunc(n)
    IN  /\ setParams([params EXCEPT !.top_k = val,
                                    !.top_p = IF val # Null THEN Null ELSE @])
        /\ lastEvent' = Event("setTopK", v, NoOutcome)

setReasoningEffort(v) ==
    /\ setParams([params EXCEPT !.reasoning_effort = v])
    /\ lastEvent' = Event("setReasoningEffort", <<v>>, NoOutcome)

\* handleSubmit without the isPending test
handleSubmit_noPendingGuard ==
    /\ lastEvent' = Event("handleSubmit", <<>>, NoOutcome)
    /\ IF Trim(inputValue) = <<>> \/ Len(errors) > 0
       THEN UNCHANGED <<messages, inputValue, params, errors, isPending, outbox, now>>
       ELSE /\ Len(messages) < MaxMessages
            /\ \E t \in now..MaxClock, ts \in now..MaxClock :
                 /\ t <= ts
                 /\ now' = ts
                 /\ messages' = Append(messages, userMessage(t, ts, inputValue))
            /\ outbox' = Append(outbox, [text |-> inputValue, cfg |-> params])
            /\ isPending' = TRUE
            /\ inputValue' = <<>>
            /\ UNCHANGED <<params, errors>>

\* handleSubmit without the errors test
handleSubmit_noValidation ==
    /\ lastEvent' = Event("handleSubmit", <<>>, NoOutcome)
    /\ IF Trim(inputValue) = <<>> \/ isPending
       THEN UNCHANGED <<messages, inputValue, params, errors, isPending, outbox, now>>
       ELSE /\ Len(messages) < MaxMessages
            /\ \E t \in now..MaxClock, ts \in now..MaxClock :
                 /\ t <= ts
                 /\ now' = ts
                 /\ messages' = Append(messages, userMessage(t, ts, inputValue))
            /\ outbox' = Append(outbox, [text |-> inputValue, cfg |-> params])
            /\ isPending' = TRUE
            /\ inputValue' = <<>>
            /\ UNCHANGED <<params, errors>>

\* handleSubmit without the reset of the draft
handleSubmit_keepsDraft ==
    /\ lastEvent' = Event("handleSubmit", <<>>, NoOutcome)
    /\ IF Trim(inputValue) = <<>> \/ isPending \/ Len(errors) > 0
       THEN UNCHANGED <<messages, inputValue, params, errors, isPending, outbox, now>>
       ELSE /\ Len(messages) < MaxMessages
            /\ \E t \in now..MaxClock, ts \in now..MaxClock :
                 /\ t <= ts
                 /\ now' = ts
                 /\ messages' = Append(messages, userMessage(t, ts, inputValue))
            /\ outbox' = Append(outbox, [text |-> inputValue, cfg |-> params])
            /\ isPending' = TRUE
            /\ inputValue' = inputValue
            /\ UNCHANGED <<params, errors>>

handleSubmit ==
    /\ lastEvent' = Event("handleSubmit", <<>>, NoOutcome)
    /\ IF Trim(inputValue) = <<>> \/ isPending \/ Len(errors) > 0
       THEN UNCHANGED <<messages, inputValue, params, errors, isPending, outbox, now>>
       ELSE /\ Len(messages) < MaxMessages
            /\ \E t \in now..MaxClock, ts \in now..MaxClock :
                 /\ t <= ts
                 /\ now' = ts
                 /\ messages' = Append(messages, userMessage(t, ts, inputValue))
            /\ outbox' = Append(outbox, [text |-> inputValue, cfg |-> params])
            /\ isPending' = TRUE
            /\ inputValue' = <<>>
            /\ UNCHANGED <<params, errors>>

\* request i settles with outcome o; the mutation is pending until the request
\* issued last has settled
settle(i, o) ==
    /\ outbox' = RemoveAt(outbox, i)
    /\ isPending' = IF i = Len(outbox) THEN FALSE ELSE isPending
    /\ lastEvent' = Event(IF sendMessage(o).threw THEN "onError" ELSE "onSuccess", <<>>, o)
    /\ UNCHANGED <<inputValue, params, errors>>

onSuccess(o) ==
    \E i \in 1..Len(outbox), t \in now..MaxClock, ts \in now..MaxClock :
        /\ ~sendMessage(o).threw
        /\ t <= ts
        /\ now' = ts
        /\ messages' = Append(messages, botMessage(t, ts, sendMessage(o).value))
        /\ settle(i, o)

onError(o) ==
    \E i \in 1..Len(outbox), t \in now..MaxClock, ts \in now..MaxClock :
        /\ sendMessage(o).threw
        /\ t <= ts
        /\ now' = ts
        /\ messages' = Append(messages, errorMessage(t, ts, sendMessage(o).value))
        /\ settle(i, o)

\* clearChat that also abandons the request in flight
clearChat_cancelsRequest ==
    /\ messages' = <<>>
    /\ outbox' = <<>>
    /\ isPending' = FALSE
    /\ lastEvent' = Event("clearChat", <<>>, NoOutcome)
    /\ UNCHANGED <<inputValue, params, errors, now>>

clearChat ==
    /\ messages' = <<>>
    /\ lastEvent' = Event("clearChat", <<>>, NoOutcome)
    /\ UNCHANGED <<inputValue, params, errors, isPending, outbox, now>>

Next ==
    \/ \E v \in DraftInputs : setInputValue(v)
    \/ \E v \in TemperatureInputs : setTemperature(v)
    \/ \E v \in TopPInputs : setTopP(v)
    \/ \E v \in TopKInputs : setTopK(v)
    \/ \E v \in EffortInputs : setReasoningEffort(v)
    \/ handleSubmit
    \/ \E o \in SessionOutcomes : onSuccess(o)
    \/ \E o \in SessionOutcomes : onError(o)
    \/ clearChat

Spec == Init /\ [][Next]_vars

----------------------------------------------------------------------------
(* The session under the default parameters, over every outcome of the call. *)

NextReplies ==
    \/ \E v \in DraftInputs : setInputValue(v)
    \/ handleSubmit
    \/ \E o \in Outcomes : onSuccess(o)
    \/ \E o \in Outcomes : onError(o)
    \/ clearChat

SpecReplies == Init /\ [][NextReplies]_vars

----------------------------------------------------------------------------
(* Editing the parameters only, over a wider set of typed texts. *)

NextParams ==
    \/ \E v \in NumberTexts : setTemperature(v)
    \/ \E v \in NumberTexts : setTopP(v)
    \/ \E v \in NumberTexts : setTopK(v)
    \/ \E v \in ReasoningEfforts : setReasoningEffort(v)

SpecParams == Init /\ [][NextParams]_vars

----------------------------------------------------------------------------
(* The validator applied to any parameter set, reachable from the UI or not. *)

NumberValues == {Number(v) : v \in NumberTexts} \cup {NaN}

ParamSpace ==
    [temperature : NumberValues,
     top_p : NumberValues \cup {Null},
     top_k : NumberValues \cup {Null},
     reasoning_effort : ReasoningEfforts \cup {"extreme"}]

InitValidate ==
    /\ messages = <<>>
    /\ inputValue = <<>>
    /\ params \in ParamSpace
    /\ errors = <<>>
    /\ isPending = FALSE
    /\ outbox = <<>>
    /\ now = 0
    /\ lastEvent = Event("mount", <<>>, NoOutcome)

\* the render computes errors from params
render ==
    /\ errors' = validateParams(params)
    /\ lastEvent' = Event("render", <<>>, NoOutcome)
    /\ UNCHANGED <<messages, inputValue, params, isPending, outbox, now>>

SpecValidate == InitValidate /\ [][render]_vars

----------------------------------------------------------------------------
(* Properties. *)

Last(s) == s[Len(s)]

Setters == {"setTemperature", "setTopP", "setTopK", "setReasoningEffort"}

\* C1: in every reachable state at most one completion request is
\* outstanding, the pending flag is set exactly when one is, and a request is
\* issued only by handleSubmit and only when none was pending.
C1_AtMostOneInFlight ==
    /\ [](Len(outbox) <= 1 /\ (isPending <=> outbox # <<>>))
    /\ [][Len(outbox') > Len(outbox)
            => lastEvent'.op = "handleSubmit" /\ ~isPending /\ outbox = <<>>]_vars

\* a submit of a sendable draft was attempted while a request was pending
C1_Witness ==
    /\ lastEvent.op = "handleSubmit"
    /\ isPending /\ Len(outbox) = 1
    /\ Trim(inputValue) # <<>> /\ validateParams(params) = <<>>

\* C2: a submit with a blank draft, or while a request is pending, or with
\* parameters that validateParams rejects, changes neither the message list
\* nor the draft nor the parameters nor the pending flag and sends nothing.
C2_RejectedSubmitIsNoOp ==
    [][(/\ lastEvent'.op = "handleSubmit"
        /\ (Trim(inputValue) = <<>> \/ isPending \/ validateParams(params) # <<>>))
        => UNCHANGED <<messages, inputValue, params, isPending, outbox>>]_vars

\* a submit of a non-blank draft was rejected for its parameters alone
C2_Witness ==
    /\ lastEvent.op = "handleSubmit"
    /\ ~isPending /\ outbox = <<>>
    /\ Trim(inputValue) # <<>> /\ validateParams(params) # <<>>

\* C3: an accepted submit appends one user message holding the draft, clears
\* the draft, sets the pending flag and sends one request carrying the draft
\* and the parameters of that moment; later edits and clears leave the request
\* as it was sent, and the parameters of a request in flight pass validation.
C3_AcceptedSubmit ==
    /\ [][(/\ lastEvent'.op = "handleSubmit"
           /\ Trim(inputValue) # <<>> /\ ~isPending /\ validateParams(params) = <<>>)
           => /\ Len(messages') = Len(messages) + 1
              /\ SubSeq(messages', 1, Len(messages)) = messages
              /\ Last(messages').isUser
              /\ Last(messages').content = inputValue
              /\ inputValue' = <<>>
              /\ isPending'
              /\ outbox' = Append(outbox, [text |-> inputValue, cfg |-> params])
              /\ params' = params]_vars
    /\ [][lastEvent'.op \in Setters \cup {"setInputValue", "clearChat"}
            => outbox' = outbox]_vars
    /\ [](\A i \in 1..Len(outbox) : validateParams(outbox[i].cfg) = <<>>)

\* a request is in flight, its user message is last in the list, and the
\* parameters were since edited into a set that fails validation
C3_Witness ==
    /\ isPending /\ Len(outbox) = 1
    /\ messages # <<>> /\ Last(messages).isUser
    /\ Last(messages).content = outbox[1].text
    /\ inputValue = <<>>
    /\ outbox[1].cfg # params /\ validateParams(params) # <<>>

\* a success status with a body that parses: a JSON object, or the JSON null
IsOkParsed(o) == o.kind = "response" /\ o.ok /\ o.json \in {"object", "null"}

CarriesText(x) == x.k = "string" /\ Len(x.s) > 0

\* C4: a success response is handled as a success: one assistant message is
\* appended, whose content is the message field when it carries text,
\* otherwise the content field when it carries text, otherwise 'Sin
\* respuesta' (a body with neither field, the JSON null among them, is not
\* an error), and the controller is idle again.
C4_Success ==
    [][IsOkParsed(lastEvent'.outcome)
        => LET o == lastEvent'.outcome
           IN  /\ lastEvent'.op = "onSuccess"
               /\ Len(messages') = Len(messages) + 1
               /\ SubSeq(messages', 1, Len(messages)) = messages
               /\ ~Last(messages').isUser
               /\ Last(messages').content =
                     IF CarriesText(o.message) THEN o.message.s
                     ELSE IF CarriesText(o.content) THEN o.content.s
                          ELSE SinRespuesta
               /\ ~isPending' /\ outbox' = <<>>]_vars

\* the calls that fail: a rejected fetch, a non-success status, a success
\* status with a body that does not parse, and a success status with the
\* JSON null for a body, where reading its message field fails
IsFailure(o) ==
    \/ o.kind = "reject"
    \/ o.kind = "response" /\ (~o.ok \/ o.json \in {"invalid", "null"})

\* the description of a failure: the text of the error field of a non-success
\* response, the fixed text when it has none, the platform's text otherwise
Description(o) ==
    IF o.kind = "reject" THEN o.reason
    ELSE IF ~o.ok
         THEN IF o.json = "object" /\ o.error.k = "string" THEN o.error.s ELSE ErrorAlEnviar
    ELSE IF o.json = "invalid" THEN o.reason
    ELSE CannotReadNull

\* C5: a call that fails (a rejected fetch, a non-success status, an
\* unparseable body, a null body) is absorbed: one assistant message is
\* appended whose content is the error prefix followed by the failure's
\* description, the user messages are as before, nothing is sent again, and
\* the controller is idle again.
C5_Failure ==
    [][IsFailure(lastEvent'.outcome)
        => LET o == lastEvent'.outcome
           IN  /\ lastEvent'.op = "onError"
               /\ Len(messages') = Len(messages) + 1
               /\ SubSeq(messages', 1, Len(messages)) = messages
               /\ ~Last(messages').isUser
               /\ Last(messages').content = ErrorPrefix \o Description(o)
               /\ ~isPending' /\ outbox' = <<>>]_vars

\* a non-success response with an error field was shown with that field's
\* text, and the controller is idle
C5_Witness ==
    /\ lastEvent.op = "onError"
    /\ ~lastEvent.outcome.ok /\ CarriesText(lastEvent.outcome.error)
    /\ Last(messages).content = ErrorPrefix \o lastEvent.outcome.error.s
    /\ ~isPending /\ outbox = <<>>

\* C6: clear empties the message list and leaves the draft, the parameters,
\* the pending flag and the request in flight as they were; a request that was
\* outstanding when the list was cleared still appends its assistant message
\* and returns the controller to idle.
C6_Clear ==
    /\ [][lastEvent'.op = "clearChat"
            => messages' = <<>> /\ UNCHANGED <<inputValue, params, isPending, outbox>>]_vars
    /\ [][(messages = <<>> /\ outbox # <<>> /\ lastEvent'.op \in {"onSuccess", "onError"})
            => Len(messages') = 1 /\ ~messages'[1].isUser /\ ~isPending' /\ outbox' = <<>>]_vars

\* the list was cleared while a request was outstanding, and the request then
\* completed into the empty list
C6_Witness ==
    /\ Len(messages) = 1 /\ ~messages[1].isUser
    /\ lastEvent.op = "onSuccess"
    /\ ~isPending /\ inputValue # <<>>

\* C7: from the default parameters, after any edits, top_p and top_k are not
\* both set; a non-empty text typed into one field unsets the other, an empty
\* text unsets the field and leaves the other, and the temperature and
\* reasoning-effort setters leave both.
C7_TopPTopKExclusive ==
    /\ [](params.top_p = Null \/ params.top_k = Null)
    /\ [][/\ (lastEvent'.op = "setTopP" /\ lastEvent'.input # <<>>
                => params'.top_p # Null /\ params'.top_k = Null)
          /\ (lastEvent'.op = "setTopP" /\ lastEvent'.input = <<>>
                => params'.top_p = Null /\ params'.top_k = params.top_k)
          /\ (lastEvent'.op = "setTopK" /\ lastEvent'.input # <<>>
                => params'.top_k # Null /\ params'.top_p = Null)
          /\ (lastEvent'.op = "setTopK" /\ lastEvent'.input = <<>>
                => params'.top_k = Null /\ params'.top_p = params.top_p)
          /\ (lastEvent'.op \in {"setTemperature", "setReasoningEffort"}
                => params'.top_p = params.top_p /\ params'.top_k = params.top_k)]_vars

\* top_k was typed while top_p held its default, and top_p is now unset
C7_Witness ==
    /\ lastEvent.op = "setTopK" /\ lastEvent.input # <<>>
    /\ params.top_k # Null /\ params.top_p = Null

\* the doubles of the integers 0 .. 20, -0 among them
SmallIntegers == {Zero(0 - 1)} \cup {FromInt(n) : n \in 0..20}

InRange(x, lo, hi) == x.k = "num" /\ ~Lt(x, lo) /\ ~Gt(x, hi)

\* the rule of each message, stated on the parameters
Violated(p, msg) ==
    CASE msg = ErrTemperature -> ~InRange(p.temperature, Num0, Num2)
      [] msg = ErrTopP -> p.top_p # Null /\ ~InRange(p.top_p, Num0, Num1)
      [] msg = ErrTopK ->
            p.top_k # Null /\ p.top_k \notin SmallIntegers
      [] msg = ErrBoth -> p.top_p # Null /\ p.top_k # Null
      [] msg = ErrEffort -> p.reasoning_effort \notin {"high", "medium", "low", "minimal"}

RuleOrder == <<ErrTemperature, ErrTopP, ErrTopK, ErrBoth, ErrEffort>>

\* C8: validateParams returns one message for each violated rule and no other,
\* in the order temperature, top_p, top_k, mutual exclusion, reasoning effort;
\* a value of 0 is set, not unset; the result is empty exactly when no rule is
\* violated.
C8_ValidateParams ==
    lastEvent.op = "render"
      => /\ Len(errors) = Cardinality({i \in 1..5 : Violated(params, RuleOrder[i])})
         /\ \A i \in 1..5 :
              Violated(params, RuleOrder[i]) <=> \E j \in 1..Len(errors) : errors[j] = RuleOrder[i]
         /\ \A j, k \in 1..Len(errors) :
              j < k => \E a, b \in 1..5 : a < b /\ RuleOrder[a] = errors[j] /\ RuleOrder[b] = errors[k]
         /\ (errors = <<>> <=> \A i \in 1..5 : ~Violated(params, RuleOrder[i]))

\* all five rules are violated at once and all five messages are returned
C8_Witness ==
    /\ lastEvent.op = "render"
    /\ errors = RuleOrder

\* C9: no two messages of the list have the same id.
C9_UniqueIds ==
    \A i, j \in 1..Len(messages) : i # j => messages[i].id # messages[j].id

\* C10: adjacent messages differ in origin, and a non-empty list ends with a
\* user message exactly when a request is pending.
C10_Alternation ==
    /\ \A i \in 1..(Len(messages) - 1) : messages[i].isUser # messages[i + 1].isUser
    /\ messages # <<>> => (Last(messages).isUser <=> isPending)

\* a list that was cleared while a request was outstanding and has since
\* taken that answer, a further submit and its answer
C10_Witness ==
    /\ Len(messages) = 3
    /\ ~messages[1].isUser /\ messages[2].isUser /\ ~messages[3].isUser
    /\ ~isPending

====
